---- MODULE Spec2Model ----
(***************************************************************************)
(* State-machine model of src/gui.py (iso2god-rs GUI with FTP): the        *)
(* polling DirectoryWatcher, the debouncing IsoHandler, the shared         *)
(* iso_queue, the single consumer thread (process_queue / process_iso)     *)
(* with its child conversion process, and the GUI callbacks                *)
(* (toggle_watching, stop_watching, clear_queue).                          *)
(*                                                                         *)
(* Threads are modelled by a program counter each (wpc: watcher thread,    *)
(* pc: consumer thread, gui_pc: Tk main thread); an action is one          *)
(* uninterrupted stretch of a thread between two points where another      *)
(* thread can observe or change shared state.  Time is discrete: one Tick  *)
(* is one second.  Timestamps are kept as the time elapsed since they      *)
(* were taken (capped where the code only compares them to a threshold).   *)
(***************************************************************************)
EXTENDS Integers, Sequences, FiniteSets, TLC

\* ------------------------------------------------------------------ bounds
\* Longest iso_queue the model lets the watcher build (queue.Queue() is unbounded).
MaxQueue == 2
\* The scan delay the user configured, in seconds (IsoHandler.scan_delay).
ScanDelay == 3
\* The process timeout the user configured, in seconds (process_timeout * 60).
TimeoutSecs == 2
\* The most things the user does in one run: files copied in or taken away,
\* buttons pressed.
MaxEvents == 4

\* ------------------------------------------------------- program constants
max_retries == 3
retry_delay == 120

\* A timestamp that was never taken / a value that is None.
None == 0 - 1

\* ------------------------------------------------------------------- names
\* File names are sequences of characters, so that lower() and endswith()
\* are computed on them as the code does.
Lower(c) ==
    CASE c = "I" -> "i"
      [] c = "S" -> "s"
      [] c = "O" -> "o"
      [] c = "A" -> "a"
      [] c = "B" -> "b"
      [] OTHER -> c

lower(s) == [i \in 1..Len(s) |-> Lower(s[i])]

endswith(s, suffix) ==
    /\ Len(s) >= Len(suffix)
    /\ SubSeq(s, Len(s) - Len(suffix) + 1, Len(s)) = suffix

\* The files that can appear in the watch directory.
FileA == <<"a", ".", "i", "s", "o">>
FileB == <<"B", ".", "I", "S", "O">>
Files == {FileA, FileB}

\* gui.py:86 and gui.py:115: the extension filter.
IsIso_case_sensitive(file) == endswith(file, <<".", "i", "s", "o">>)

IsIso(file) == endswith(lower(file), <<".", "i", "s", "o">>)

\* str.isdigit(): non-empty and every character a digit.
Digits == {"0", "1", "2", "3", "4", "5", "6", "7", "8", "9"}
isdigit(s) == Len(s) > 0 /\ \A i \in 1..Len(s) : s[i] \in Digits

\* Binary names are sequences of tokens: a run of digits is one token holding
\* its value (what int() makes of it), any other character run is a token of
\* kind "c".
D(n) == [k |-> "d", v |-> n, c |-> ""]
Ch(s) == [k |-> "c", v |-> 0, c |-> s]

\* re.search(r'-(\d+\.\d+\.\d+)', name) matches at token i.
VersionAt(name, i) ==
    /\ i + 5 <= Len(name)
    /\ name[i] = Ch("-")
    /\ name[i + 1].k = "d"
    /\ name[i + 2] = Ch(".")
    /\ name[i + 3].k = "d"
    /\ name[i + 4] = Ch(".")
    /\ name[i + 5].k = "d"

\* tuple <= tuple in Python: lexicographic.
TupleLeq_major_only(a, b) == a[1] <= b[1]

TupleLeq(a, b) ==
    \/ a[1] < b[1]
    \/ a[1] = b[1] /\ a[2] < b[2]
    \/ a[1] = b[1] /\ a[2] = b[2] /\ a[3] <= b[3]

is_legacy_version(binary_name) ==
    LET hits == {i \in 1..Len(binary_name) : VersionAt(binary_name, i)}
    IN  IF hits = {} THEN FALSE
        ELSE LET i == CHOOSE j \in hits : \A h \in hits : j <= h
                 version_tuple == <<binary_name[i + 1].v, binary_name[i + 3].v,
                                    binary_name[i + 5].v>>
             IN  TupleLeq(version_tuple, <<1, 6, 0>>)

\* The selectable binaries ("" when none is selected).
NoBinary == <<>>
Bin152 == <<Ch("windows"), Ch("-"), D(1), Ch("."), D(5), Ch("."), D(2), Ch("."), Ch("exe")>>
Bin160 == <<Ch("linux"), Ch("-"), D(1), Ch("."), D(6), Ch("."), D(0)>>
Bin1100 == <<Ch("windows"), Ch("-"), D(1), Ch("."), D(10), Ch("."), D(0), Ch("."), Ch("exe")>>
BinPlain == <<Ch("iso"), D(2), Ch("god"), Ch("."), Ch("exe")>>
Binaries == {NoBinary, Bin152, Bin160, Bin1100, BinPlain}

\* The process_timeout entry: minutes, as the fraction float() reads from it
\* (den = 0: a text float() rejects).
Minutes(n, d) == [num |-> n, den |-> d]
NotANumber == Minutes(0, 0)
Timeouts == {Minutes(0, 1), Minutes(TimeoutSecs, 60), NotANumber}

\* The thread_count entry's text.
ThreadCounts == {<<"4">>, <<"0">>, <<>>, <<"-", "1">>, <<"x">>}

\* ---------------------------------------------------------------- state
VARIABLES
    dir,               \* the .iso-candidate files now in the watch directory
    events,            \* how many things the user has done so far
    unserved,          \* history: files put in place and not dequeued, tried by an
                       \* attempt, cleared from the queue or taken away since
    watcher,           \* Iso2GodGUI.watcher is not None
    is_processing,     \* Iso2GodGUI.is_processing
    gui_pc,            \* Tk main thread: "idle" or inside clear_queue's loop
    selected_iso2god,  \* config: the binary's name
    binary_exists,     \* os.path.exists(iso2god_path)
    thread_count,      \* config: the thread_count entry
    process_timeout,   \* config: the process_timeout entry, minutes
    delete_iso_var,    \* config
    use_ftp,           \* config
    processing,        \* IsoHandler.processing of the current handler
    last_event_time,   \* IsoHandler.last_event_time: seconds since, or None
    iso_queue,         \* Iso2GodGUI.iso_queue
    wpc,               \* watcher thread: off, idle, iter, add, sleep
    stop_event,        \* DirectoryWatcher._stop_event
    last_check,        \* keys of DirectoryWatcher._last_check
    listing,           \* current_files of the poll in progress
    wtodo,             \* untracked files of the listing not yet iterated
    wfile,             \* the path on_created is admitting
    pc,                \* consumer thread
    total_count,       \* process_queue local
    current_index,     \* process_queue local
    job,               \* process_iso locals
    child,             \* the child conversion process
    log,               \* history: what process_iso did for the current Job, in order
    served,            \* history: Jobs dequeued so far
    audit,             \* whether this run keeps the history variables and follows the
                       \* reader threads and the children left behind
    readers,           \* which output-reader threads of the latest attempt still run
    orphans            \* children of concluded Jobs that are still alive

cfg == <<selected_iso2god, binary_exists, thread_count, process_timeout,
         delete_iso_var, use_ftp>>
gui == <<watcher, is_processing, gui_pc>>
hnd == <<processing, last_event_time>>
wth == <<wpc, stop_event, last_check, listing, wtodo, wfile>>
con == <<pc, total_count, current_index, job, child, log, served, audit, readers, orphans>>
env == <<dir, events, unserved>>
vars == <<env, gui, cfg, hnd, iso_queue, wth, con>>

NoFile == <<>>
NoJob == [iso_path |-> NoFile, current_try |-> 0, legacy_mode |-> FALSE,
          add_j |-> FALSE, unexpected_j |-> FALSE, timeout_seconds |-> None,
          outcome |-> "none",  \* outcome: history, the exit process_iso took
          game_title |-> <<>>, \* game_title_var as this Job set it (<<>>: "None")
          in_set |-> FALSE,    \* the answer of `iso_path in self.handler.processing`
          ftp |-> <<>>]        \* history: what send_over_ftp did for this Job
NoChild == [state |-> "none", rc |-> 0, elapsed |-> 0]
\* A reader thread: "none", "runs", "ended" (end of file), "raised" (the
\* PermissionError of gui.py:713 ended it).
NoReaders == [out |-> "none", err |-> "none"]

\* The reader threads and the children left behind are followed only in
\* behaviours that do not start with Unfollowed readers.
Unfollowed == [out |-> "off", err |-> "off"]
Followed == readers # Unfollowed

\* os.path.splitext(filename)[0] of a name ending in a 3-letter extension.
splitext(filename) == SubSeq(filename, 1, Len(filename) - 4)

Alive(c) == c.state \in {"running", "killed"}

\* Where process_iso returns, the finally block starts: the title is reset
\* and the in-flight set of the handler now current is asked for the path
\* (gui.py:806-807).
Finally(j) == [j EXCEPT !.game_title = <<>>, !.in_set = j.iso_path \in processing]

NoEvents == [p \in Files |-> None]

Ev(op, arg) == [op |-> op, arg |-> arg]

\* Which exit process_iso took is history too.
Outcome(o) == IF audit THEN o ELSE "none"

\* A history with one more event.
LoggedTo(l, e) == IF audit THEN Append(l, e) ELSE l
Logged(e) == LoggedTo(log, e)

\* ------------------------------------------------------------ environment
\* A file is copied into the watch directory.
UserActs == events < MaxEvents /\ events' = events + 1

DropFile ==
    /\ UserActs
    /\ \E f \in Files \ dir : dir' = dir \cup {f} /\ unserved' = unserved \cup {f}
    /\ UNCHANGED <<gui, cfg, hnd, iso_queue, wth, con>>

\* A file is deleted or moved away by the user.
RemoveFile ==
    /\ UserActs
    /\ \E f \in dir : dir' = dir \ {f} /\ unserved' = unserved \ {f}
    /\ UNCHANGED <<gui, cfg, hnd, iso_queue, wth, con>>

\* One second passes: every recorded timestamp is one second older
\* (time.time() grows), a sleeping watcher thread wakes (time.sleep(1)).
Aged(t, cap) == IF t = None THEN None ELSE IF t < cap THEN t + 1 ELSE cap

Tick ==
    /\ last_event_time' = [p \in Files |-> Aged(last_event_time[p], ScanDelay)]
    /\ child' = IF child.state = "running"
                THEN [child EXCEPT !.elapsed = Aged(child.elapsed, TimeoutSecs + 1)]
                ELSE child
    /\ wpc' = IF wpc = "sleep" THEN "idle" ELSE wpc
    /\ UNCHANGED <<env, gui, cfg, processing, iso_queue, stop_event, last_check,
                   listing, wtodo, wfile, pc, total_count, current_index, job, log,
                   served, audit, readers, orphans>>

\* -------------------------------------------------------------------- GUI
\* toggle_watching with no watcher: a new IsoHandler and a new
\* DirectoryWatcher thread over the same iso_queue.  (The directories are
\* taken to exist; the thread of an earlier watcher has ended.)
toggle_watching ==
    /\ UserActs
    /\ gui_pc = "idle"
    /\ ~watcher
    /\ wpc = "off"
    /\ processing' = {}
    /\ last_event_time' = NoEvents
    /\ last_check' = {}
    /\ stop_event' = FALSE
    /\ wpc' = "idle"
    /\ watcher' = TRUE
    /\ is_processing' = TRUE
    /\ UNCHANGED <<dir, unserved, gui_pc, cfg, iso_queue, listing, wtodo, wfile, con>>

\* stop_watching (also toggle_watching with a watcher): the thread ends at
\* its next loop test, after the poll it may be in.
stop_watching ==
    /\ UserActs
    /\ gui_pc = "idle"
    /\ watcher
    /\ stop_event' = TRUE
    /\ wpc' = IF wpc \in {"idle", "sleep"} THEN "off" ELSE wpc
    /\ watcher' = FALSE
    /\ is_processing' = FALSE
    /\ UNCHANGED <<dir, unserved, gui_pc, cfg, hnd, iso_queue, last_check, listing, wtodo,
                   wfile, con>>

\* clear_queue: the button is pressed ...
clear_queue ==
    /\ UserActs
    /\ gui_pc = "idle"
    /\ gui_pc' = "clearing"
    /\ UNCHANGED <<dir, unserved, watcher, is_processing, cfg, hnd, iso_queue, wth, con>>

\* ... and each turn of `while not empty(): get_nowait()`.
clear_queue_step_discharging ==
    /\ gui_pc = "clearing"
    /\ IF iso_queue = <<>>
       THEN gui_pc' = "idle" /\ iso_queue' = iso_queue /\ unserved' = unserved
                             /\ processing' = processing
       ELSE /\ gui_pc' = gui_pc
            /\ iso_queue' = Tail(iso_queue)
            /\ unserved' = unserved \ {Head(iso_queue)}
            /\ processing' = processing \ {Head(iso_queue)}
    /\ UNCHANGED <<dir, events, watcher, is_processing, cfg, last_event_time, wth, con>>

clear_queue_step ==
    /\ gui_pc = "clearing"
    /\ IF iso_queue = <<>>
       THEN gui_pc' = "idle" /\ iso_queue' = iso_queue /\ unserved' = unserved
       ELSE /\ gui_pc' = gui_pc
            /\ iso_queue' = Tail(iso_queue)
            /\ unserved' = unserved \ {Head(iso_queue)}
    /\ UNCHANGED <<dir, events, watcher, is_processing, cfg, hnd, wth, con>>

\* ---------------------------------------------------------- watcher thread
\* check_directory, os.listdir: a listing error skips the cycle.
check_directory_error_as_empty ==
    /\ wpc = "idle"
    /\ \E ok \in BOOLEAN :
        IF ok
        THEN /\ listing' = {f \in dir : IsIso(f)}
             /\ wtodo' = {f \in dir : IsIso(f)} \ last_check
             /\ wpc' = "iter"
             /\ last_check' = last_check
        ELSE /\ wpc' = "sleep"
             /\ last_check' = {}
             /\ UNCHANGED <<listing, wtodo>>
    /\ UNCHANGED <<env, gui, cfg, hnd, iso_queue, stop_event, wfile, con>>

check_directory ==
    /\ wpc = "idle"
    /\ \E ok \in BOOLEAN :
        IF ok
        THEN /\ listing' = {f \in dir : IsIso(f)}
             /\ wtodo' = {f \in dir : IsIso(f)} \ last_check
             /\ wpc' = "iter"
        ELSE /\ wpc' = "sleep"
             /\ UNCHANGED <<listing, wtodo>>
    /\ UNCHANGED <<env, gui, cfg, hnd, iso_queue, stop_event, last_check, wfile, con>>

\* queue.Queue.put (gui.py:97): the item goes to the end of the FIFO.
put_in_front(q, item) == <<item>> \o q

put(q, item) == Append(q, item)

\* IsoHandler.on_created up to queue.put: the debounce test, the timestamp,
\* the in-flight test.
Debounced_late(path) ==
    /\ last_event_time[path] # None
    /\ last_event_time[path] > ScanDelay

Debounced_never(path) == FALSE

Debounced(path) ==
    /\ last_event_time[path] # None
    /\ last_event_time[path] < ScanDelay

on_created ==
    /\ wpc = "iter"
    /\ \E path \in wtodo :
        /\ last_check' = last_check \cup {path}
        /\ wtodo' = wtodo \ {path}
        /\ IF Debounced(path)
           THEN UNCHANGED <<last_event_time, iso_queue, wpc, wfile>>
           ELSE /\ last_event_time' = [last_event_time EXCEPT ![path] = 0]
                /\ IF path \notin processing
                   THEN /\ Len(iso_queue) < MaxQueue
                        /\ iso_queue' = put(iso_queue, path)
                        /\ wpc' = "add"
                        /\ wfile' = path
                   ELSE UNCHANGED <<iso_queue, wpc, wfile>>
    /\ UNCHANGED <<env, gui, cfg, processing, stop_event, listing, con>>

\* ... and self.processing.add(event.src_path).
on_created_add ==
    /\ wpc = "add"
    /\ processing' = processing \cup {wfile}
    /\ wpc' = "iter"
    /\ wfile' = NoFile
    /\ UNCHANGED <<env, gui, cfg, last_event_time, iso_queue, stop_event, last_check,
                   listing, wtodo, con>>

\* The end of check_directory: paths no longer listed are forgotten; then
\* run() sleeps a second, or ends when the watcher was stopped.
check_directory_cleanup ==
    /\ wpc = "iter"
    /\ wtodo = {}
    /\ last_check' = last_check \cap listing
    /\ listing' = {}
    /\ wpc' = IF stop_event THEN "off" ELSE "sleep"
    /\ UNCHANGED <<env, gui, cfg, hnd, iso_queue, stop_event, wtodo, wfile, con>>
\* --------------------------------------------------------- consumer thread
\* The consumer's locals are dead between Jobs; they are reset there.
Idle ==
    /\ pc' = "loop"
    /\ total_count' = 0
    /\ current_index' = 0
    /\ job' = NoJob
    /\ child' = NoChild
    /\ log' = <<>>
    /\ readers' = IF Followed THEN NoReaders ELSE readers
    /\ orphans' = IF Followed /\ Alive(child) THEN orphans + 1 ELSE orphans

\* process_queue, gui.py:606-611: the flag test and the first qsize().
process_queue ==
    /\ pc = "loop"
    /\ is_processing
    /\ Len(iso_queue) > 0
    /\ total_count' = Len(iso_queue)
    /\ pc' = "index"
    /\ UNCHANGED <<env, gui, cfg, hnd, iso_queue, wth, current_index, job, child, log,
                   served, audit, readers, orphans>>

\* gui.py:613: the second qsize().
CurrentIndex(total, qsize) == total - qsize + 1

process_queue_index ==
    /\ pc = "index"
    /\ current_index' = CurrentIndex(total_count, Len(iso_queue))
    /\ pc' = "get"
    /\ UNCHANGED <<env, gui, cfg, hnd, iso_queue, wth, total_count, job, child, log,
                   served, audit, readers, orphans>>

\* gui.py:614 and process_iso up to the retry loop (gui.py:638-653);
\* get(timeout=1) on a queue that was cleared meanwhile raises queue.Empty.
process_queue_get ==
    /\ pc = "get"
    /\ IF iso_queue = <<>>
       THEN Idle /\ UNCHANGED <<iso_queue, served, unserved>>
       ELSE /\ iso_queue' = Tail(iso_queue)
            /\ unserved' = unserved \ {Head(iso_queue)}
            /\ served' = IF audit THEN served + 1 ELSE served
            /\ log' = <<>>
            /\ child' = NoChild
            /\ UNCHANGED <<total_count, current_index, readers, orphans>>
            /\ IF selected_iso2god = NoBinary
               THEN /\ job' = Finally([NoJob EXCEPT !.iso_path = Head(iso_queue),
                                                    !.outcome = Outcome("no_binary")])
                    /\ pc' = "finally"
               ELSE IF ~binary_exists
               THEN /\ job' = Finally([NoJob EXCEPT !.iso_path = Head(iso_queue),
                                                    !.outcome = Outcome("binary_missing")])
                    /\ pc' = "finally"
               ELSE /\ job' = [NoJob EXCEPT
                                 !.iso_path = Head(iso_queue),
                                 !.game_title = splitext(Head(iso_queue)),
                                 !.legacy_mode = is_legacy_version(selected_iso2god)]
                    /\ pc' = "attempt"
    /\ UNCHANGED <<dir, events, gui, cfg, hnd, wth, audit>>

\* What open(iso_path, 'rb') can do: a missing file raises FileNotFoundError.
OpenResults(path) ==
    IF path \in dir THEN {"ok", "PermissionError", "Exception"} ELSE {"Exception"}

PopenResults == {"ok", "PermissionError", "Exception"}

\* gui.py:675.
AddJ_whenever_numeric(count, legacy) == isdigit(count)

AddJ(count, legacy) == isdigit(count) /\ ~legacy

\* gui.py:679-684: minutes to seconds; 0, a negative or an unreadable
\* entry is no timeout.
TimeoutSeconds(timeout) ==
    IF timeout = NotANumber THEN None
    ELSE IF timeout.num > 0 THEN (timeout.num * 60) \div timeout.den
    ELSE None

\* A retryable failure (gui.py:661-668, 786-792, 794-800): sleep and go
\* round again, or give up on the last attempt.
RetryOrSkip_once_more(outcome, l) ==
    IF job.current_try < max_retries
    THEN /\ log' = LoggedTo(l, Ev("sleep", retry_delay))
         /\ pc' = "retry_sleep"
         /\ job' = job
    ELSE /\ log' = l
         /\ pc' = "finally"
         /\ job' = Finally([job EXCEPT !.outcome = Outcome(outcome)])

RetryOrSkip_no_delay(outcome, l) ==
    IF job.current_try < max_retries - 1
    THEN /\ log' = l
         /\ pc' = "attempt"
         /\ job' = [job EXCEPT !.current_try = job.current_try + 1]
    ELSE /\ log' = l
         /\ pc' = "finally"
         /\ job' = Finally([job EXCEPT !.outcome = Outcome(outcome)])

RetryOrSkip(outcome, l) ==
    IF job.current_try < max_retries - 1
    THEN /\ log' = LoggedTo(l, Ev("sleep", retry_delay))
         /\ pc' = "retry_sleep"
         /\ job' = job
    ELSE /\ log' = l
         /\ pc' = "finally"
         /\ job' = Finally([job EXCEPT !.outcome = Outcome(outcome)])

\* One turn of `while current_try < max_retries` up to the reader threads'
\* start (gui.py:654-729).
attempt ==
    /\ pc = "attempt"
    /\ IF job.current_try >= max_retries
       THEN /\ pc' = "finally"
            /\ job' = Finally(job)
            /\ UNCHANGED <<child, log, unserved, readers>>
       ELSE \E opened \in OpenResults(job.iso_path), spawned \in PopenResults :
            /\ unserved' = unserved \ {job.iso_path}
            /\ CASE opened = "PermissionError" ->
                     /\ RetryOrSkip("locked_skip", Logged(Ev("locked", 0)))
                     /\ UNCHANGED <<child, readers>>
                [] opened = "Exception" ->
                     /\ job' = Finally([job EXCEPT !.outcome = Outcome("unexpected")])
                     /\ pc' = "finally"
                     /\ log' = Logged(Ev("raised", 0))
                     /\ UNCHANGED <<child, readers>>
                [] opened = "ok" /\ spawned = "PermissionError" ->
                     /\ RetryOrSkip("access_skip", Logged(Ev("access", 0)))
                     /\ UNCHANGED <<child, readers>>
                [] opened = "ok" /\ spawned = "Exception" ->
                     /\ job' = Finally([job EXCEPT !.outcome = Outcome("unexpected")])
                     /\ pc' = "finally"
                     /\ log' = Logged(Ev("raised", 0))
                     /\ UNCHANGED <<child, readers>>
                [] OTHER ->
                     /\ job' = [job EXCEPT
                                  !.add_j = AddJ(thread_count, job.legacy_mode),
                                  !.timeout_seconds = TimeoutSeconds(process_timeout),
                                  !.unexpected_j = FALSE]
                     /\ child' = [state |-> "running", rc |-> 0, elapsed |-> 0]
                     /\ readers' = IF Followed THEN [out |-> "runs", err |-> "runs"]
                                   ELSE readers
                     /\ log' = Logged(Ev("spawn",
                                IF AddJ(thread_count, job.legacy_mode) THEN 1 ELSE 0))
                     /\ pc' = "wait"
    /\ UNCHANGED <<dir, events, gui, cfg, hnd, iso_queue, wth, total_count, current_index,
                   served, audit, orphans>>

\* time.sleep(retry_delay) is over: current_try += 1 and the loop test.
retry_sleep ==
    /\ pc = "retry_sleep"
    /\ job' = [job EXCEPT !.current_try = job.current_try + 1]
    /\ pc' = "attempt"
    /\ UNCHANGED <<env, gui, cfg, hnd, iso_queue, wth, total_count, current_index,
                   child, log, served, audit, readers, orphans>>

\* The child ends by itself.
ExitCodes == {0, 1}

ChildExit ==
    /\ child.state \in {"running", "killed"}
    /\ \E rc \in ExitCodes : child' = [state |-> "exited", rc |-> rc, elapsed |-> 0]
    /\ UNCHANGED <<env, gui, cfg, hnd, iso_queue, wth, pc, total_count, current_index,
                   job, log, served, audit, readers, orphans>>

\* read_output on stderr (gui.py:698-722) reads one line of the child.  A
\* line is a sequence of phrases; `x in line` asks for one of them.
StderrLines ==
    {<<"error: ", "unexpected argument '-j' found">>,
     <<"The ", "process cannot access the file", " because it is ",
       "being used by another process">>,
     <<"os error 32: ", "being used by another process">>,
     <<"writing part files: 3/10">>}

Contains(line, phrase) == \E i \in 1..Len(line) : line[i] = phrase

IsLockLine(line) ==
    \/ Contains(line, "process cannot access the file")
    \/ Contains(line, "being used by another process")

\* Where the reader threads are not followed, stderr is read while the
\* supervisor waits for the child.
ReaderRuns(r) == IF Followed THEN readers[r] = "runs" ELSE pc = "wait"

read_output ==
    /\ ReaderRuns("err")
    /\ \E line \in StderrLines :
        /\ job' = IF job.legacy_mode /\ Contains(line, "unexpected argument '-j' found")
                  THEN [job EXCEPT !.unexpected_j = TRUE]
                  ELSE job
        /\ readers' = IF Followed /\ IsLockLine(line)
                      THEN [readers EXCEPT !.err = "raised"]
                      ELSE readers
    /\ UNCHANGED <<env, gui, cfg, hnd, iso_queue, wth, pc, total_count, current_index,
                   child, log, served, audit, orphans>>

\* A reader thread meets the end of its pipe once the child is gone.
reader_end ==
    /\ child.state = "exited"
    /\ \E r \in {"out", "err"} :
        /\ readers[r] = "runs"
        /\ readers' = [readers EXCEPT ![r] = "ended"]
    /\ UNCHANGED <<env, gui, cfg, hnd, iso_queue, wth, pc, total_count, current_index,
                   job, child, log, served, audit, orphans>>

\* A child that outlived its Job ends.
orphan_exit ==
    /\ orphans > 0
    /\ orphans' = orphans - 1
    /\ UNCHANGED <<env, gui, cfg, hnd, iso_queue, wth, pc, total_count, current_index,
                   job, child, log, served, audit, readers>>
\* The wait loop's timeout branch (gui.py:731-740): terminate, a second's
\* grace, kill when the child is still alive; the Job is given up.
Overdue == job.timeout_seconds # None /\ child.elapsed > job.timeout_seconds

TimedOut(j) == [j EXCEPT !.outcome = Outcome("timed_out")]

wait_timeout_as_failure ==
    /\ pc = "wait"
    /\ child.state = "running"
    /\ Overdue
    /\ \E dies \in BOOLEAN :
        /\ child' = [state |-> IF dies THEN "exited" ELSE "killed", rc |-> 1,
                     elapsed |-> 0]
        /\ RetryOrSkip("timed_out", Logged(Ev("terminate", IF dies THEN 0 ELSE 1)))
    /\ UNCHANGED <<env, gui, cfg, hnd, iso_queue, wth, total_count, current_index, served, audit, readers, orphans>>

wait_timeout ==
    /\ pc = "wait"
    /\ child.state = "running"
    /\ Overdue
    /\ \E dies \in BOOLEAN :
        /\ child' = [state |-> IF dies THEN "exited" ELSE "killed", rc |-> 1,
                     elapsed |-> 0]
        /\ log' = Logged(Ev("terminate", IF dies THEN 0 ELSE 1))
    /\ job' = Finally(TimedOut(job))
    /\ pc' = "finally"
    /\ UNCHANGED <<env, gui, cfg, hnd, iso_queue, wth, total_count, current_index, served, audit, readers, orphans>>

\* Anything the wait loop's body raises (self.app.update() runs off the Tk
\* thread) lands in `except Exception` (gui.py:801-803).
wait_exception_retried ==
    /\ pc = "wait"
    /\ child.state = "running"
    /\ ~Overdue
    /\ RetryOrSkip("unexpected", Logged(Ev("raised", 0)))
    /\ UNCHANGED <<env, gui, cfg, hnd, iso_queue, wth, total_count, current_index,
                   child, served, audit, readers, orphans>>

wait_exception ==
    /\ pc = "wait"
    /\ child.state = "running"
    /\ ~Overdue
    /\ job' = Finally([job EXCEPT !.outcome = Outcome("unexpected")])
    /\ pc' = "finally"
    /\ log' = Logged(Ev("raised", 0))
    /\ UNCHANGED <<env, gui, cfg, hnd, iso_queue, wth, total_count, current_index,
                   child, served, audit, readers, orphans>>

\* gui.py:759: the retry without -j.
LegacyRetry(j) == j.legacy_mode /\ j.unexpected_j /\ j.add_j

\* gui.py:773: the source is deleted only when ...
MayDelete_when_stopped == delete_iso_var

MayDelete_without_option == is_processing

MayDelete == delete_iso_var /\ is_processing

\* The child has ended (gui.py:753-792): the exit code decides.
attempt_concluded ==
    /\ pc = "wait"
    /\ child.state = "exited"
    /\ child' = NoChild
    /\ IF LegacyRetry(job)
       THEN /\ job' = [job EXCEPT !.current_try = job.current_try + 1]
            /\ pc' = "attempt"
            /\ UNCHANGED <<log, dir, unserved>>
       ELSE IF child.rc = 0
       THEN /\ job' = Finally([job EXCEPT !.outcome = Outcome("succeeded")])
            /\ pc' = "finally"
            /\ IF MayDelete
               THEN \E removed \in {job.iso_path \in dir, FALSE} :
                      /\ dir' = IF removed THEN dir \ {job.iso_path} ELSE dir
                      /\ unserved' = IF removed THEN unserved \ {job.iso_path} ELSE unserved
                      /\ log' = LoggedTo(Logged(Ev("exit", 0)),
                                       Ev("remove", IF removed THEN 1 ELSE 0))
               ELSE /\ UNCHANGED <<dir, unserved>>
                    /\ log' = LoggedTo(Logged(Ev("exit", 0)),
                                     Ev("kept", IF delete_iso_var THEN 1 ELSE 0))
       ELSE RetryOrSkip("failed_skip", Logged(Ev("exit", child.rc))) /\ UNCHANGED <<dir, unserved>>
    /\ UNCHANGED <<events, gui, cfg, hnd, iso_queue, wth, total_count, current_index,
                   served, audit, readers, orphans>>

\* gui.py:810-811.
StartsUpload_after_every_job == use_ftp

StartsUpload == use_ftp /\ current_index = total_count

\* The rest of the finally block (gui.py:808-820): remove() on the handler
\* now current, task_done(), the upload test.  When toggle_watching has
\* put a new handler in place since the membership test, remove() raises
\* KeyError; process_queue catches queue.Empty only (gui.py:616), so the
\* consumer thread ends.
process_iso_finally ==
    /\ pc = "finally"
    /\ IF job.in_set /\ job.iso_path \notin processing
       THEN /\ pc' = "dead"
            /\ UNCHANGED <<processing, total_count, current_index, job, child, log,
                           readers, orphans>>
       ELSE /\ processing' = processing \ {job.iso_path}
            /\ IF StartsUpload
               THEN /\ pc' = "upload"
                    /\ job' = [job EXCEPT !.in_set = FALSE]
                    /\ log' = Logged(Ev("upload", 0))
                    /\ UNCHANGED <<total_count, current_index, child, readers, orphans>>
               ELSE Idle
    /\ UNCHANGED <<env, gui, cfg, last_event_time, iso_queue, wth, served, audit>>

\* The output folder that is mirrored: a file and a subfolder with a file.
File == [dir |-> FALSE, items |-> <<>>]
Folder(items) == [dir |-> TRUE, items |-> items]
OutputFolder == Folder(<<File, Folder(<<File>>)>>)

\* upload_folder (gui.py:465-480): the FTP commands of the mirror of one
\* folder, in the order they are sent.
RECURSIVE upload_items(_)
upload_items(items) ==
    IF items = <<>> THEN <<>>
    ELSE (IF Head(items).dir
          THEN <<"mkd", "cwd">> \o upload_items(Head(items).items) \o <<"cwd..">>
          ELSE <<"stor">>)
         \o upload_items(Tail(items))

upload_folder(folder) == <<"mkd", "cwd">> \o upload_items(folder.items)

\* What the commands of a plan can do.  Result 0: done; 1: the command
\* raised; 2: mkd raised because the directory exists.  Whatever mkd
\* raises is dropped by the bare `except: pass` (gui.py:466-469); any other
\* command that raises ends the mirror.
GoesOn(command) == IF command = "mkd" THEN {0, 1, 2} ELSE {0}

RECURSIVE Runs(_)
Runs(plan) ==
    IF plan = <<>> THEN {<<>>}
    ELSE LET command == Head(plan)
         IN  {<<Ev(command, r)>> \o rest :
                  r \in GoesOn(command), rest \in Runs(Tail(plan))}
             \cup (IF command = "mkd" THEN {} ELSE {<<Ev(command, 1)>>})

Raised(run) == run[Len(run)].op # "mkd" /\ run[Len(run)].arg = 1

\* send_over_ftp (gui.py:482-488) inside the try of gui.py:812-816: connect,
\* login, the mirror; the bare `except` reports "FTP Transfer Error.".
\* Where the consumer's surroundings are followed, what the commands did is
\* kept with the Job until process_iso returns.
mirror ==
    /\ Followed
    /\ pc = "upload"
    /\ job.ftp = <<>>
    /\ \E run \in Runs(<<"connect", "login">> \o upload_folder(OutputFolder)) :
          job' = [job EXCEPT !.ftp = IF Raised(run)
                                     THEN Append(run, Ev("transfer_error", 0))
                                     ELSE run]
    /\ UNCHANGED <<env, gui, cfg, hnd, iso_queue, wth, pc, total_count, current_index,
                   child, log, served, audit, readers, orphans>>

\* The upload is over, well or not; gui.py:820: "Ready for next file in
\* queue", and process_iso returns.
send_over_ftp ==
    /\ pc = "upload"
    /\ Followed => job.ftp # <<>>
    /\ Idle
    /\ UNCHANGED <<env, gui, cfg, hnd, iso_queue, wth, served, audit>>

\* ------------------------------------------------------- specifications
TypeOK ==
    /\ dir \subseteq Files
    /\ unserved \subseteq Files
    /\ processing \subseteq Files
    /\ Len(iso_queue) <= MaxQueue
    /\ pc \in {"loop", "index", "get", "attempt", "wait", "retry_sleep", "finally",
              "upload", "dead"}
    /\ orphans \in Nat
    /\ wpc \in {"off", "idle", "iter", "add", "sleep"}

\* The settings the pipeline is explored with.
Configs ==
    [selected_iso2god : {Bin1100}, binary_exists : {TRUE}, thread_count : {<<"4">>},
     process_timeout : {Minutes(TimeoutSecs, 60)}, delete_iso_var : {TRUE}, use_ftp : {TRUE}]

\* Every setting of one Job.
JobConfigs ==
    [selected_iso2god : Binaries, binary_exists : BOOLEAN, thread_count : ThreadCounts,
     process_timeout : Timeouts, delete_iso_var : BOOLEAN, use_ftp : BOOLEAN]

InitConfig(cs) ==
    \E c \in cs :
        /\ selected_iso2god = c.selected_iso2god
        /\ binary_exists = c.binary_exists
        /\ thread_count = c.thread_count
        /\ process_timeout = c.process_timeout
        /\ delete_iso_var = c.delete_iso_var
        /\ use_ftp = c.use_ftp

\* Iso2GodGUI.__init__ (gui.py:159-186): nothing queued, no watcher, the
\* consumer thread started.
Init ==
    /\ InitConfig(Configs)
    /\ dir = {}
    /\ events = 0
    /\ unserved = {}
    /\ watcher = FALSE
    /\ is_processing = FALSE
    /\ gui_pc = "idle"
    /\ processing = {}
    /\ last_event_time = NoEvents
    /\ iso_queue = <<>>
    /\ wpc = "off"
    /\ stop_event = FALSE
    /\ last_check = {}
    /\ listing = {}
    /\ wtodo = {}
    /\ wfile = NoFile
    /\ pc = "loop"
    /\ total_count = 0
    /\ current_index = 0
    /\ job = NoJob
    /\ child = NoChild
    /\ log = <<>>
    /\ served = 0
    /\ audit = FALSE
    /\ readers = Unfollowed
    /\ orphans = 0

Consumer ==
    \/ process_queue
    \/ process_queue_index
    \/ process_queue_get
    \/ attempt
    \/ retry_sleep
    \/ ChildExit
    \/ read_output
    \/ wait_timeout
    \/ wait_exception
    \/ attempt_concluded
    \/ process_iso_finally
    \/ send_over_ftp

Next ==
    \/ DropFile
    \/ RemoveFile
    \/ Tick
    \/ toggle_watching
    \/ stop_watching
    \/ clear_queue
    \/ clear_queue_step
    \/ check_directory
    \/ on_created
    \/ on_created_add
    \/ check_directory_cleanup
    \/ Consumer

Spec == Init /\ [][Next]_vars
\* ---------------------------------------------------- one drain, alone
\* The queues a drain starts from: Jobs of different paths, admitted by the
\* running watcher some time ago.
RECURSIVE Range(_)
Range(q) == IF q = <<>> THEN {} ELSE {Head(q)} \cup Range(Tail(q))

JobQueues ==
    {<<f>> : f \in Files} \cup {<<f, g>> : <<f, g>> \in {x \in Files \X Files : x[1] # x[2]}}

\* A state of the running program: the watcher sleeps between two polls that
\* find nothing new, the queued files are in place, the consumer is at the
\* top of its loop.  The history variables are kept.
Drain(cs, rd) ==
    /\ InitConfig(cs)
    /\ \E q \in JobQueues :
        /\ iso_queue = q
        /\ dir = Range(q)
        /\ unserved = Range(q)
        /\ processing = Range(q)
        /\ last_check = Range(q)
        /\ last_event_time = [p \in Files |-> IF p \in Range(q) THEN ScanDelay ELSE None]
    /\ events = 0
    /\ watcher = TRUE
    /\ is_processing = TRUE
    /\ gui_pc = "idle"
    /\ wpc = "sleep"
    /\ stop_event = FALSE
    /\ listing = {}
    /\ wtodo = {}
    /\ wfile = NoFile
    /\ pc = "loop"
    /\ total_count = 0
    /\ current_index = 0
    /\ job = NoJob
    /\ child = NoChild
    /\ log = <<>>
    /\ served = 0
    /\ audit = TRUE
    /\ readers = rd
    /\ orphans = 0

InitJob == Drain(JobConfigs, Unfollowed)

\* The consumer works the queue off while time passes; the user may stop
\* the watcher.
NextJob ==
    \/ Tick
    \/ stop_watching
    \/ Consumer

SpecJob == InitJob /\ [][NextJob]_vars

\* ------------------------------------- one drain, its threads and children
\* The settings under which the reader threads and the children of a drain
\* are followed.
ThreadConfigs ==
    [selected_iso2god : {Bin1100}, binary_exists : {TRUE}, thread_count : {<<"4">>},
     process_timeout : {Minutes(0, 1), Minutes(TimeoutSecs, 60)}, delete_iso_var : {TRUE},
     use_ftp : BOOLEAN]

InitThreads == Drain(ThreadConfigs, NoReaders)

NextThreads ==
    \/ Tick
    \/ Consumer
    \/ reader_end
    \/ orphan_exit
    \/ mirror

SpecThreads == InitThreads /\ [][NextThreads]_vars

\* ---------------------------------------- one drain, with the threads running
\* The settings under which the end of a Job is followed: each reading of the
\* timeout entry.
LiveConfigs ==
    [selected_iso2god : {Bin1100}, binary_exists : {TRUE}, thread_count : {<<"4">>},
     process_timeout : Timeouts, delete_iso_var : {TRUE}, use_ftp : {TRUE}]

InitLive == Drain(LiveConfigs, Unfollowed)

\* The consumer is a running thread (gui.py:184-186): a statement of its own
\* that can be executed is executed.  That a child ends, that it writes a
\* line, that a statement raises, is up to the child and to Tk.
ConsumerRuns ==
    \/ process_queue
    \/ process_queue_index
    \/ process_queue_get
    \/ attempt
    \/ retry_sleep
    \/ wait_timeout
    \/ attempt_concluded
    \/ process_iso_finally
    \/ send_over_ftp

\* Time passes (time.time() in gui.py:732 grows, time.sleep returns).
SpecLive == InitLive /\ [][NextJob]_vars /\ WF_vars(Tick) /\ WF_vars(ConsumerRuns)

\* ================================================================ properties
\* How often a path is in a queue; whether the consumer is inside process_iso
\* for it (from the dequeue to the end of the finally block's cleanup).
Count(q, p) == Cardinality({i \in 1..Len(q) : q[i] = p})

InProcess(p) ==
    /\ pc \in {"attempt", "wait", "retry_sleep", "finally"}
    /\ job.iso_path = p

\* C1: in every reachable state each path is queued-or-processing at most
\* once: its occurrences in iso_queue, plus one when it is the Job being
\* processed, never exceed 1.
C1_QueuedOrProcessingAtMostOnce ==
    \A p \in Files :
        Count(iso_queue, p) + (IF InProcess(p) THEN 1 ELSE 0) <= 1

\* C2: a sighting delivered to on_created less than scan_delay seconds after
\* the last recorded admission attempt of the same path puts nothing in the
\* queue and starts no admission.
C2_DebouncedSightingAdmitsNothing ==
    [][\A p \in Files :
          (/\ wpc = "iter"
           /\ p \in wtodo
           /\ p \notin wtodo'
           /\ last_event_time[p] # None
           /\ last_event_time[p] < ScanDelay)
          => (iso_queue' = iso_queue /\ processing' = processing /\ wpc' = "iter")]_vars

\* The poll has found a path new whose last admission attempt is younger
\* than scan_delay, and hands the sighting to on_created.
C2_SightingInsideWindow ==
    /\ wpc = "iter"
    /\ \E p \in wtodo : last_event_time[p] # None /\ last_event_time[p] < ScanDelay

\* C3: no work is lost.  A file that was put in place, that no Job has
\* taken up since (no dequeue of its path, no attempt started on it) and
\* that is still in place while watching and processing are enabled, is on
\* its way to the consumer: its path is queued or being processed, or the
\* watcher will sight it as new at a coming poll (it is not tracked, or the
\* poll in progress is about to forget it).  Where none of these holds,
\* nothing the watcher or the consumer does brings the file to process_iso.
OnItsWay(p) ==
    \/ Count(iso_queue, p) > 0
    \/ InProcess(p)
    \/ p \notin last_check
    \/ wpc \in {"iter", "add"} /\ p \notin listing

C3_NoWorkLost ==
    \A p \in Files :
        (p \in unserved /\ p \in dir /\ watcher /\ is_processing) => OnItsWay(p)

\* ---- one Job's history
Last(l) == l[Len(l)]

IsPrefix(a, b) == Len(a) <= Len(b) /\ SubSeq(b, 1, Len(a)) = a

\* What the conversion did, without the upload that may follow it and
\* without the -j mark of the spawns.
Conversion ==
    LET l == SelectSeq(log, LAMBDA e : e.op # "upload")
    IN  [i \in 1..Len(l) |-> IF l[i].op = "spawn" THEN Ev("spawn", 0) ELSE l[i]]

\* Every attempt so far ran a child that exited non-zero: nothing but
\* spawns, non-zero exits and the delays those exits caused.
OnlyNonZeroExits(l) ==
    \A i \in 1..Len(l) :
        /\ l[i].op \in {"spawn", "exit", "sleep"}
        /\ l[i].op = "exit" => l[i].arg # 0
        /\ l[i].op = "sleep" => (i > 1 /\ l[i - 1].op = "exit")

ThreeFailedAttempts ==
    <<Ev("spawn", 0), Ev("exit", 1), Ev("sleep", 120),
      Ev("spawn", 0), Ev("exit", 1), Ev("sleep", 120),
      Ev("spawn", 0), Ev("exit", 1)>>

\* C4: a Job whose attempts all exit non-zero spawns exactly 3 children,
\* sleeps 120 s between attempts 1-2 and 2-3, and is skipped after the third
\* exit with no further delay and no fourth attempt.
C4_ThreeAttemptsTwoDelays ==
    OnlyNonZeroExits(Conversion) =>
        /\ IsPrefix(Conversion, ThreeFailedAttempts)
        /\ (Conversion = ThreeFailedAttempts) <=> (job.outcome = "failed_skip")
        /\ (job.outcome = "failed_skip") => (pc \in {"finally", "upload"})

C4_SkippedAfterThirdExit ==
    /\ job.outcome = "failed_skip"
    /\ Conversion = ThreeFailedAttempts

\* C5: once the timeout branch has terminated a Job's child (terminate, and
\* kill when it was still alive), the Job spawns no further attempt and
\* takes no delay, its source file stays in place whatever the delete
\* option says, and the Job ends.
C5_TimedOutJobIsGivenUp ==
    \A i \in 1..Len(log) :
        (log[i].op = "terminate") =>
            /\ i > 1 /\ log[i - 1].op = "spawn"
            /\ \A k \in (i + 1)..Len(log) : log[k].op = "upload"
            /\ job.timeout_seconds # None
            /\ job.outcome = "timed_out"
            /\ pc \in {"finally", "upload"}
            /\ child.state \in {"exited", "killed"}
            /\ (log[i].arg = 0) => (child.state = "exited")
            /\ job.iso_path \in dir

C5_KilledWithDeleteEnabled ==
    /\ pc = "finally"
    /\ delete_iso_var
    /\ log # <<>>
    /\ Last(log) = Ev("terminate", 1)

\* C6: with a binary named for a version <= 1.6.0 the first attempt is
\* spawned without -j, whatever the thread count entry holds.
C6_LegacyFirstAttemptWithoutJ ==
    (selected_iso2god \in {Bin152, Bin160} /\ job.current_try = 0) =>
        /\ ~job.add_j
        /\ \A i \in 1..Len(log) : (log[i].op = "spawn") => (log[i].arg = 0)

C6_LegacyFirstAttemptRuns ==
    /\ selected_iso2god = Bin160
    /\ thread_count = <<"4">>
    /\ pc = "wait"
    /\ job.current_try = 0
    /\ log = <<Ev("spawn", 0)>>

\* C7 (what the code allows): in legacy mode -j is never sent, so the
\* retry without -j of gui.py:759-763 is never taken.
LegacyFlagNeverSent == ~(job.legacy_mode /\ job.add_j)

\* C8: when an attempt has exited with code 0 the Job concludes as
\* succeeded with no further attempt; os.remove is tried exactly when the
\* delete option is on and is_processing is still set at that moment (the
\* file is then gone, or the failure is reported and the file stays); with
\* the delete option on and processing stopped meanwhile the file is kept.
C8_SuccessDeletesOnlyWhileProcessing ==
    [][(pc = "wait" /\ child.state = "exited" /\ child.rc = 0 /\ pc' # "wait") =>
          /\ pc' = "finally"
          /\ job'.outcome = "succeeded"
          /\ job'.current_try = job.current_try
          /\ IF delete_iso_var /\ is_processing
             THEN /\ Last(log').op = "remove"
                  /\ \/ Last(log').arg = 1 /\ dir' = dir \ {job.iso_path}
                     \/ Last(log').arg = 0 /\ dir' = dir
             ELSE /\ Last(log') = Ev("kept", IF delete_iso_var THEN 1 ELSE 0)
                  /\ dir' = dir]_vars

C8_KeptBecauseStopped ==
    /\ pc = "finally"
    /\ job.outcome = "succeeded"
    /\ delete_iso_var
    /\ ~is_processing
    /\ Last(log) = Ev("kept", 1)
    /\ job.iso_path \in dir

\* C9: with upload enabled and two Jobs queued, the end of a Job starts the
\* upload exactly when it is the second Job: not after the first, and once
\* after the second.
C9_UploadOnceAfterTheSecond ==
    [][(use_ftp /\ served + Len(iso_queue) = 2 /\ pc = "finally" /\ pc' # "finally")
          => ((pc' = "upload") <=> (served = 2))]_vars

C9_UploadAfterSecondJob ==
    /\ use_ftp
    /\ pc = "upload"
    /\ served = 2

\* C10: whenever an upload starts, upload is enabled and no Job is pending
\* in iso_queue.
C10_UploadStartsOnlyWhenDrained ==
    [][(pc # "upload" /\ pc' = "upload") => (use_ftp /\ iso_queue = <<>>)]_vars

\* ---- the end of a Job, its threads and children
\* C11: an upload starts only after a Job whose conversion concluded
\* succeeded (exit code 0): never after a timeout, exhausted retries, an
\* unexpected exception or a missing or unselected binary.
C11_UploadOnlyAfterSuccess ==
    [][(pc # "upload" /\ pc' = "upload") => (job.outcome = "succeeded")]_vars

\* C12: at most one child conversion process is alive at any time: the
\* children left behind by earlier Jobs and the child of the attempt in
\* progress are never more than one together.
ChildrenAlive == orphans + (IF Alive(child) THEN 1 ELSE 0)

C12_AtMostOneChildAlive == ChildrenAlive <= 1

\* C13: once an attempt is concluded (the consumer is past the wait for its
\* child: it sleeps before a retry, starts the next turn of the loop, or is
\* in the finally block or the upload), neither of its output readers runs.
AttemptConcluded ==
    /\ pc \in {"attempt", "retry_sleep", "finally", "upload"}
    /\ readers # NoReaders

C13_ReadersJoinedAtConclusion ==
    AttemptConcluded => (readers.out # "runs" /\ readers.err # "runs")

\* C14: cleanup is unconditional.  Whenever the consumer leaves the finally
\* block of a Job, the game title has been reset, the Job's path is not in
\* the in-flight set, and the queue item has been acknowledged: the block
\* got past task_done() and goes on to the upload or to the next turn of
\* the consumer loop.
C14_CleanupAlwaysCompletes ==
    [][(pc = "finally" /\ pc' # "finally") =>
          /\ job.game_title = <<>>
          /\ job.iso_path \notin processing'
          /\ pc' \in {"loop", "upload"}]_vars

\* C15: no error of a Job's processing ends the consumer loop: the consumer
\* thread is never ended by an exception that leaves process_queue.
C15_ConsumerLoopKeepsRunning == pc # "dead"

\* C16: after the stop signal the consumer pulls no new Job: every dequeue
\* (the consumer leaves get() with a Job) happens while processing is
\* enabled.
C16_NoDequeueWhileStopped ==
    [][(pc = "get" /\ pc' \in {"attempt", "finally"}) => is_processing]_vars

\* C17: -j is appended to a spawn exactly when the configured thread count
\* is a positive integer and the Job is not in legacy mode; for 0, a
\* negative, empty or non-numeric entry, or a legacy binary, it is omitted.
PositiveInteger(s) == isdigit(s) /\ \E i \in 1..Len(s) : s[i] # "0"

C17_ThreadFlagOnlyForPositiveCount ==
    \A i \in 1..Len(log) :
        (log[i].op = "spawn") =>
            ((log[i].arg = 1) <=> (PositiveInteger(thread_count) /\ ~job.legacy_mode))

\* C18: legacy mode is decided once per Job and is the same at every
\* attempt: set for the binaries named for 1.5.2 and 1.6.0 (at or below
\* 1.6.0), not set for 1.10.0 (numerically above 1.6.0) nor for a name
\* without a version triple.
LegacyNames == {Bin152, Bin160}

C18_LegacyModeFixedForTheJob ==
    (pc \in {"attempt", "wait", "retry_sleep"}) =>
        (job.legacy_mode = (selected_iso2god \in LegacyNames))

\* The third attempt of a Job with the binary named for 1.10.0.
C18_ThirdAttemptNotLegacy ==
    /\ pc = "wait"
    /\ job.current_try = 2
    /\ selected_iso2god = Bin1100
    /\ ~job.legacy_mode

\* C19: once the stderr reader has met a file-lock line, the attempt ends
\* on the PermissionError retry path whatever the child's exit code is: the
\* wait for the child is left for the 120 s delay before a retry, or for
\* the skip of the exhausted Job.
C19_LockLineAbortsTheAttempt ==
    [][(/\ pc = "wait"
        /\ readers.err = "raised"
        /\ child.state = "exited"
        /\ pc' # "wait") =>
          \/ pc' = "retry_sleep"
          \/ job'.outcome = "access_skip"]_vars

\* C20: the attempt cap is shared by all retryable failures.  For any mix
\* of locked-file failures before the spawn, file-access errors and
\* non-zero exits: the attempt counter stays in 0..2, a Job makes at most 3
\* attempts, every attempt after the first directly follows a 120 s delay
\* and there are at most two delays, and the Job is skipped exactly at its
\* third failure, with nothing done after it.
IsAttempt(e) == e.op \in {"spawn", "locked", "access"}

IsFailure(e) == e.op \in {"locked", "access"} \/ (e.op = "exit" /\ e.arg # 0)

HowMany(l, Test(_)) == Cardinality({i \in 1..Len(l) : Test(l[i])})

IsSleep(e) == e = Ev("sleep", 120)

Skipped == job.outcome \in {"locked_skip", "access_skip", "failed_skip"}

C20_AttemptCapIsShared ==
    LET l == Conversion
    IN  /\ job.current_try \in 0..2
        /\ HowMany(l, IsAttempt) <= 3
        /\ HowMany(l, IsSleep) <= 2
        /\ \A i \in 1..Len(l) :
              /\ (IsAttempt(l[i]) /\ i > 1) => IsSleep(l[i - 1])
              /\ (l[i].op = "sleep") => (IsSleep(l[i]) /\ i > 1 /\ IsFailure(l[i - 1]))
        /\ Skipped <=> (HowMany(l, IsFailure) = 3)
        /\ Skipped => /\ pc \in {"finally", "upload"}
                      /\ IsFailure(Last(l))
                      /\ HowMany(l, IsAttempt) = 3

\* A Job skipped after one failure of each kind.
C20_SkippedAfterMixedFailures ==
    /\ Skipped
    /\ \E i, j, k \in 1..Len(log) :
          /\ log[i].op = "locked"
          /\ log[j].op = "access"
          /\ log[k] = Ev("exit", 1)

\* ---- the Job's exits, the queue and the watcher
\* C21: an exception other than PermissionError raised during an attempt
\* ends the Job at once: nothing of the conversion follows it (no attempt,
\* no delay, no deletion), the Job is reported as ended by an unexpected
\* error, and its source file is still in place.
C21_UnexpectedErrorEndsTheJob ==
    \A i \in 1..Len(log) :
        (log[i].op = "raised") =>
            /\ \A k \in (i + 1)..Len(log) : log[k].op = "upload"
            /\ \A k \in 1..Len(log) : log[k].op # "remove"
            /\ job.outcome = "unexpected"
            /\ pc \in {"finally", "upload"}
            /\ job.iso_path \in dir

\* The wait loop raised during the second attempt, the child still running.
C21_RaisedDuringSecondAttempt ==
    /\ pc = "finally"
    /\ job.current_try = 1
    /\ child.state = "running"
    /\ Last(log) = Ev("raised", 0)

\* C22: the in-flight set agrees with the queue.  Whenever no admission is
\* between its put and its add, no Job is in its finally block and no
\* clear is under way, a path is in the in-flight set exactly when it is
\* pending in iso_queue or is the Job being processed.
NothingMidStep == wpc # "add" /\ pc # "finally" /\ gui_pc = "idle"

C22_InFlightMatchesQueue ==
    NothingMidStep =>
        \A p \in Files : (p \in processing) <=> (Count(iso_queue, p) > 0 \/ InProcess(p))

\* C23: clear_queue takes the pending items out of the queue and changes
\* nothing else.  A step of the clear (the queue gets shorter and it is not
\* the consumer's dequeue, or the clear ends) leaves the in-flight set, the
\* debounce table, the watcher's tracking table and the Job being processed
\* as they are, and the clear ends on an empty queue.
ClearTakesOne ==
    /\ gui_pc = "clearing"
    /\ Len(iso_queue') < Len(iso_queue)
    /\ ~(pc = "get" /\ pc' # "get")

ClearEnds == gui_pc = "clearing" /\ gui_pc' = "idle"

C23_ClearTouchesOnlyTheQueue ==
    [][(ClearTakesOne \/ ClearEnds) =>
          /\ ClearTakesOne => iso_queue' = Tail(iso_queue)
          /\ ClearEnds => iso_queue' = <<>>
          /\ processing' = processing
          /\ last_event_time' = last_event_time
          /\ last_check' = last_check
          /\ <<pc, job, child>>' = <<pc, job, child>>]_vars

\* The clear is under way with a path pending while another Job's child runs.
C23_ClearDuringAJob ==
    /\ gui_pc = "clearing"
    /\ iso_queue # <<>>
    /\ pc = "wait"
    /\ child.state = "running"
    /\ Head(iso_queue) \in processing

\* C24: Jobs are processed in admission order.  An admission puts its path
\* behind every pending one; whatever takes a path out takes the oldest;
\* a Job starts only at the consumer's get, on the oldest pending path, and
\* until its conclusion (all attempts and delays) no other Job starts.
C24_JobsInAdmissionOrder ==
    [][/\ (Len(iso_queue') > Len(iso_queue)) =>
              /\ Len(iso_queue') = Len(iso_queue) + 1
              /\ SubSeq(iso_queue', 1, Len(iso_queue)) = iso_queue
       /\ (Len(iso_queue') < Len(iso_queue)) => (iso_queue' = Tail(iso_queue))
       /\ (job'.iso_path # job.iso_path /\ job'.iso_path # NoFile) =>
              /\ pc = "get"
              /\ job.iso_path = NoFile
              /\ job'.iso_path = Head(iso_queue)
              /\ iso_queue' = Tail(iso_queue)
       /\ (pc \in {"attempt", "wait", "retry_sleep"}) => (job'.iso_path = job.iso_path)
      ]_vars

\* The consumer is about to dequeue with two different paths pending.
C24_TwoPendingAtGet ==
    /\ pc = "get"
    /\ Len(iso_queue) = 2
    /\ iso_queue[1] # iso_queue[2]

\* C25: a listing error is absorbed.  A poll that does not get its listing
\* (the watcher thread leaves the start of check_directory for anything
\* but the walk over a listing, and it is not a stop) changes neither the
\* tracking table, the debounce table, the in-flight set nor the queue,
\* and the thread goes on to its one-second sleep before the next poll.
PollWithoutListing ==
    /\ wpc = "idle"
    /\ wpc' \notin {"idle", "iter"}
    /\ watcher' = watcher

C25_ListingErrorSkipsTheCycle ==
    [][PollWithoutListing =>
          /\ wpc' = "sleep"
          /\ stop_event' = stop_event
          /\ last_check' = last_check
          /\ last_event_time' = last_event_time
          /\ processing' = processing
          /\ iso_queue' = iso_queue]_vars

\* A poll is about to start with one path tracked and pending and another
\* file in place that no poll has seen yet.
C25_PollWithNewFileWaiting ==
    /\ wpc = "idle"
    /\ last_check # {}
    /\ iso_queue # <<>>
    /\ \E f \in dir : IsIso(f) /\ f \notin last_check

C27_SightingAndDebounceTable ==
    [][\A p \in Files :
          (wpc = "iter" /\ p \in wtodo /\ p \notin wtodo') =>
              IF last_event_time[p] # None /\ last_event_time[p] < ScanDelay
              THEN /\ last_event_time' = last_event_time
                   /\ iso_queue' = iso_queue
                   /\ processing' = processing
              ELSE /\ last_event_time' = [last_event_time EXCEPT ![p] = 0]
                   /\ (p \in processing) =>
                          /\ iso_queue' = iso_queue
                          /\ processing' = processing
                          /\ wpc' = "iter"]_vars

\* A sighting outside the window of a path that is still in flight.
C27_LateSightingOfPathInFlight ==
    /\ wpc = "iter"
    /\ \E p \in wtodo : p \in processing /\ last_event_time[p] = ScanDelay

\* ---- the upload, the source file and the progress numbering

\* C28 (as the specification states it): in the record of a mirror, every
\* command that raised, other than an mkd that found its directory already
\* there, is followed by nothing but the transfer-error report.
C28_OnlyExistingDirectorySwallowed ==
    \A i \in 1..Len(job.ftp) :
        (job.ftp[i].arg # 0 /\ ~(job.ftp[i].op = "mkd" /\ job.ftp[i].arg = 2))
            => /\ i + 1 = Len(job.ftp)
               /\ job.ftp[i + 1].op = "transfer_error"

\* C29: the program takes a Job's source file away only in the step that
\* concludes an attempt which exited with code 0, with the delete option
\* and the processing flag both on at that moment, and it is that Job's
\* file; every step that ends a Job otherwise (non-zero exit, lock, retries
\* used up, timeout, unexpected exception, missing tool) and every step
\* that goes to another attempt leaves the directory as it was.
C29_SourceDeletedOnlyAfterSuccess ==
    [][/\ dir' # dir =>
            /\ pc = "wait" /\ child.state = "exited" /\ child.rc = 0
            /\ delete_iso_var /\ is_processing
            /\ job'.outcome = "succeeded"
            /\ dir' = dir \ {job.iso_path}
       /\ (pc \in {"attempt", "wait"} /\ pc' # pc /\ job'.outcome # "succeeded")
             => dir' = dir]_vars

C29_DeletedAfterOneJobKeptAfterTheNext ==
    /\ pc = "finally"
    /\ job.outcome \in {"failed_skip", "timed_out", "unexpected"}
    /\ delete_iso_var
    /\ is_processing
    /\ dir = {job.iso_path}
    /\ served = 2

\* C30 (as the specification states it): while a Job is in the consumer's
\* hands, the progress numbering it was given satisfies
\* 1 <= current_index <= total_count.
C30_ProgressNumberingInRange ==
    pc \notin {"loop", "index", "get"} =>
        /\ 1 <= current_index
        /\ current_index <= total_count

\* ---- the end of every Job

\* With a timeout in force, a Job that is in its retry loop comes to its
\* finally block with a terminal outcome, whatever the child does.
TerminalOutcomes ==
    {"succeeded", "failed_skip", "locked_skip", "access_skip", "timed_out", "unexpected"}

C31_JobEndsUnderATimeout ==
    (pc \in {"attempt", "wait", "retry_sleep"} /\ TimeoutSeconds(process_timeout) # None)
        ~> (pc = "finally" /\ job.outcome \in TerminalOutcomes)

\* Without a timeout the supervisor terminates no child.
C31_NoTerminationWithoutTimeout ==
    TimeoutSeconds(process_timeout) = None =>
        /\ child.state # "killed"
        /\ \A k \in 1..Len(log) : log[k].op # "terminate"

\* Without a timeout the wait for a child ends only when the child has ended.
C31_ConcludesOnlyAfterChildExit ==
    [][(TimeoutSeconds(process_timeout) = None /\ pc = "wait" /\ pc' # "wait")
          => child.state = "exited"]_vars

\* C31 (as the specification states it): every Job terminates.  With a
\* positive timeout the Job reaches a terminal outcome and its cleanup after
\* finitely many steps even when the child never ends by itself; with the
\* timeout disabled no attempt is terminated by the supervisor, and the Job
\* concludes only if each child ends.
C31_EveryJobTerminates ==
    /\ C31_JobEndsUnderATimeout
    /\ []C31_NoTerminationWithoutTimeout
    /\ C31_ConcludesOnlyAfterChildExit
====
